---- MODULE Spec2Model ----
(***************************************************************************)
(* FinAgent backend: the chat router, the message state machine of the     *)
(* master agent, the loan tools, the in-memory session store and the       *)
(* underwriting engine.                                                    *)
(*                                                                         *)
(* A message text is a sequence of characters (one-character strings; the  *)
(* rupee sign is the element "RUPEE").  The amount read from a message is *)
(* in rupees; the engine, the profiles and the decisions are in paise.     *)
(***************************************************************************)
EXTENDS Integers, Sequences, FiniteSets, TLC

(***************************************************************************)
(* Text primitives used by master_agent.py and chat.py                     *)
(***************************************************************************)
UpperChars == << "A", "B", "C", "D", "E", "F", "G", "H", "I", "J", "K", "L", "M",
                 "N", "O", "P", "Q", "R", "S", "T", "U", "V", "W", "X", "Y", "Z" >>

LowerChars == << "a", "b", "c", "d", "e", "f", "g", "h", "i", "j", "k", "l", "m",
                 "n", "o", "p", "q", "r", "s", "t", "u", "v", "w", "x", "y", "z" >>

Digits == << "0", "1", "2", "3", "4", "5", "6", "7", "8", "9" >>

LowerChar(c) ==
    IF \E i \in 1..Len(UpperChars) : UpperChars[i] = c
    THEN LowerChars[CHOOSE i \in 1..Len(UpperChars) : UpperChars[i] = c]
    ELSE c

\* str.lower()
lower(s) == [i \in 1..Len(s) |-> LowerChar(s[i])]

\* c.isdigit() / regex \d
isdigit(c) == \E i \in 1..Len(Digits) : Digits[i] = c

\* regex \s
isspace(c) == c \in {" ", "\t", "\n"}

DigitValue(c) == (CHOOSE i \in 1..Len(Digits) : Digits[i] = c) - 1

\* sub in s
Contains(sub, s) ==
    \E i \in 1..(Len(s) - Len(sub) + 1) : SubSeq(s, i, i + Len(sub) - 1) = sub

\* any(word in s for word in words)
ContainsAny(words, s) == \E w \in words : Contains(w, s)


\* The text with its commas left in.
KeepCommas(s) == s

\* user_message.replace(',', '')
StripCommas(s) == SelectSeq(s, LAMBDA c : c # ",")

\* Last index of the maximal digit run that starts at i (greedy \d+).
RECURSIVE RunEnd(_, _)
RunEnd(s, i) ==
    IF i < Len(s) /\ isdigit(s[i + 1]) THEN RunEnd(s, i + 1) ELSE i

\* First index at or after j that is not whitespace (greedy \s*).
RECURSIVE SkipSpaces(_, _)
SkipSpaces(s, j) ==
    IF j <= Len(s) /\ isspace(s[j]) THEN SkipSpaces(s, j + 1) ELSE j

\* float(...) / int(...) of a digit run
RECURSIVE ToNumber(_)
ToNumber(run) ==
    IF run = << >> THEN 0
    ELSE 10 * ToNumber(SubSeq(run, 1, Len(run) - 1)) + DigitValue(run[Len(run)])

NoMatch == << >>

\* re.search(r'₹?\s*(\d+)', s).group(1): the first maximal digit run of s.
amount_match(s) ==
    IF \E i \in 1..Len(s) : isdigit(s[i])
    THEN LET i == CHOOSE k \in 1..Len(s) :
                      isdigit(s[k]) /\ \A j \in 1..(k - 1) : ~isdigit(s[j])
         IN  SubSeq(s, i, RunEnd(s, i))
    ELSE NoMatch

\* The run starting at i is followed by \s*month.
FollowedByMonth(s, i) ==
    LET j == SkipSpaces(s, RunEnd(s, i) + 1)
    IN  /\ j + 4 <= Len(s)
        /\ SubSeq(s, j, j + 4) = << "m", "o", "n", "t", "h" >>

\* re.search(r'(\d+)\s*month', s).group(1): the leftmost digit run that is
\* followed by optional whitespace and "month".
tenure_match(s) ==
    LET Starts == {i \in 1..Len(s) : isdigit(s[i]) /\ FollowedByMonth(s, i)}
    IN  IF Starts = {} THEN NoMatch
        ELSE LET i == CHOOSE k \in Starts : \A j \in Starts : k <= j
             IN  SubSeq(s, i, RunEnd(s, i))

(***************************************************************************)
(* Configuration (config.py) and fixed-point arithmetic.                   *)
(* Python floats are modelled by integers: money in paise (1/100 rupee),    *)
(* FOIR in thousandths, (1 + r)^n in units of 1/PowScale.                   *)
(***************************************************************************)
DEFAULT_INTEREST_RATE == 12
MIN_LOAN_AMOUNT == 50000
MAX_LOAN_AMOUNT == 5000000
MIN_TENURE_MONTHS == 6
MAX_TENURE_MONTHS == 60
EXCELLENT_CREDIT_SCORE == 720
GOOD_CREDIT_SCORE == 680
\* FOIR_THRESHOLD_A = 0.4 and FOIR_THRESHOLD_B = 0.5, in thousandths
FOIR_THRESHOLD_A == 400
FOIR_THRESHOLD_B == 500

\* Resolution of the fixed-point value of math.pow(1 + monthly_rate, n).
PowScale == 10000000
\* Decimal digits of PowScale.
PowDigits == 7

RECURSIVE Pow10(_)
Pow10(d) == IF d = 0 THEN 1 ELSE 10 * Pow10(d - 1)

\* floor(a * 10^d / b) by long division, for a >= 0 and b > 0; no
\* intermediate value exceeds max(a, 10 * b, the result).
RECURSIVE LongDiv(_, _, _)
LongDiv(a, b, d) ==
    IF d = 0 THEN a \div b
    ELSE (a \div b) * Pow10(d) + LongDiv((a % b) * 10, b, d - 1)

\* (a * 10^d) mod b, computed along the same long division.
RECURSIVE LongRem(_, _, _)
LongRem(a, b, d) ==
    IF d = 0 THEN a % b ELSE LongRem((a % b) * 10, b, d - 1)

\* round(a * 10^d / b), halves up.
RoundDiv(a, b, d) ==
    LongDiv(a, b, d) + (IF 2 * LongRem(a, b, d) >= b THEN 1 ELSE 0)

\* round(x * t / 1000) for a ratio t in thousandths, without overflow.
MulMilli(x, t) == (x \div 1000) * t + RoundDiv((x % 1000) * t, 1000, 0)

\* interest_rate / 12: the monthly rate in percent.
MonthlyRatePercent == DEFAULT_INTEREST_RATE \div 12

\* math.pow(1 + monthly_rate, n) in units of 1/PowScale, where
\* monthly_rate = interest_rate / 12 / 100.
RECURSIVE PowRateFrom(_, _)
PowRateFrom(acc, n) ==
    IF n = 0 \/ acc = 0 THEN acc
    ELSE PowRateFrom(RoundDiv(acc * (100 + MonthlyRatePercent), 100, 0), n - 1)

\* The powers for the tenures up to just past the maximum, computed once.
PowRates == [ n \in 0..(MAX_TENURE_MONTHS + 1) |-> PowRateFrom(PowScale, n) ]

\* A negative exponent gives the reciprocal, as math.pow does.
PowRate(n) ==
    IF n \in DOMAIN PowRates THEN PowRates[n]
    ELSE IF n >= 0 THEN PowRateFrom(PowScale, n)
    ELSE RoundDiv(PowScale, PowRateFrom(PowScale, 0 - n), PowDigits)

(***************************************************************************)
(* UnderwritingService (underwriting_service.py).  Amounts, EMIs and       *)
(* incomes are in paise, FOIR in thousandths.                              *)
(***************************************************************************)

\* A validation that accepts any tenure.
validate_loan_request_any_tenure(amount, tenure, monthly_income) ==
    IF amount < MIN_LOAN_AMOUNT * 100 THEN "amount_below_minimum"
    ELSE IF amount > MAX_LOAN_AMOUNT * 100 THEN "amount_above_maximum"
    ELSE IF monthly_income <= 0 THEN "income_required"
    ELSE ""


\* A validation without the lower limit of the tenure.
validate_loan_request_no_tenure_floor(amount, tenure, monthly_income) ==
    IF amount < MIN_LOAN_AMOUNT * 100 THEN "amount_below_minimum"
    ELSE IF amount > MAX_LOAN_AMOUNT * 100 THEN "amount_above_maximum"
    ELSE IF tenure > MAX_TENURE_MONTHS THEN "tenure_above_maximum"
    ELSE IF monthly_income <= 0 THEN "income_required"
    ELSE ""

\* _validate_loan_request: the error message, "" when the request is valid.
validate_loan_request(amount, tenure, monthly_income) ==
    IF amount < MIN_LOAN_AMOUNT * 100 THEN "amount_below_minimum"
    ELSE IF amount > MAX_LOAN_AMOUNT * 100 THEN "amount_above_maximum"
    ELSE IF tenure < MIN_TENURE_MONTHS THEN "tenure_below_minimum"
    ELSE IF tenure > MAX_TENURE_MONTHS THEN "tenure_above_maximum"
    ELSE IF monthly_income <= 0 THEN "income_required"
    ELSE ""

\* _calculate_emi has no check of its arguments.  The only failure is the
\* ZeroDivisionError of the float division when (1+r)^n - 1 is 0.0 (n = 0),
\* or of principal / tenure_months when the rate is 0.
calculate_emi_raises(principal, tenure_months) ==
    IF MonthlyRatePercent = 0 THEN tenure_months = 0
    ELSE PowRate(tenure_months) = PowScale

Abs(x) == IF x < 0 THEN 0 - x ELSE x

\* _calculate_emi: round(P * r * (1+r)^n / ((1+r)^n - 1), 2).  With
\* (1+r)^n / ((1+r)^n - 1) = 1 + 1 / ((1+r)^n - 1) the quotient is taken by
\* long division, in tenths of a paisa, and then rounded.  A negative
\* principal or a negative tenure ((1+r)^n < 1) only changes the sign of the
\* value: the result is negative when exactly one of them is.
calculate_emi(principal, tenure_months) ==
    IF MonthlyRatePercent = 0
    THEN LET q == RoundDiv(Abs(principal), Abs(tenure_months), 0)
         IN  IF (principal < 0) = (tenure_months < 0) THEN q ELSE 0 - q
    ELSE LET Over(den) ==
                 LET quot   == LongDiv(Abs(principal), Abs(den), PowDigits - 1)
                     tenths == IF den > 0 THEN (Abs(principal) \div 10) + quot
                               ELSE quot - (Abs(principal) \div 10)
                     emi    == ((tenths * MonthlyRatePercent) + 5) \div 10
                 IN  IF (principal < 0) = (den < 0) THEN emi ELSE 0 - emi
         IN  Over(PowRate(tenure_months) - PowScale)


\* A ratio that takes the existing EMIs off the new one.
calculate_foir_net_of_existing(existing_emi, new_emi, monthly_income) ==
    IF monthly_income <= 0 THEN 1000
    ELSE RoundDiv(Abs(new_emi - existing_emi), monthly_income, 3)

\* _calculate_foir: round((existing_emi + new_emi) / monthly_income, 3);
\* 1.0 when the income is not positive.
calculate_foir(existing_emi, new_emi, monthly_income) ==
    IF monthly_income <= 0 THEN 1000
    ELSE RoundDiv(existing_emi + new_emi, monthly_income, 3)

\* _create_approval_response
create_approval_response(amount, tenure, credit_score, foir, risk_band, explanation) ==
    LET emi == calculate_emi(amount, tenure)
    IN  [ decision        |-> "APPROVED",
          approved_amount |-> amount,
          tenure_months   |-> tenure,
          emi             |-> emi,
          interest_rate   |-> DEFAULT_INTEREST_RATE,
          credit_score    |-> credit_score,
          foir            |-> foir,
          risk_band       |-> risk_band,
          explanation     |-> explanation,
          total_payable   |-> emi * tenure,
          processing_fee  |-> RoundDiv(amount * 2, 100, 0) ]


\* An adjustment that adds the processing fee to the amount it offers.
create_adjustment_response_fee_financed(adjusted_amount, tenure, credit_score, foir, risk_band, explanation) ==
    LET financed == adjusted_amount + RoundDiv(adjusted_amount * 2, 100, 0)
        emi      == calculate_emi(financed, tenure)
    IN  [ decision        |-> "ADJUST",
          approved_amount |-> financed,
          tenure_months   |-> tenure,
          emi             |-> emi,
          interest_rate   |-> DEFAULT_INTEREST_RATE,
          credit_score    |-> credit_score,
          foir            |-> foir,
          risk_band       |-> risk_band,
          explanation     |-> explanation,
          total_payable   |-> emi * tenure,
          processing_fee  |-> RoundDiv(adjusted_amount * 2, 100, 0) ]

\* _create_adjustment_response: the foir passed in is reported unchanged.
create_adjustment_response(adjusted_amount, tenure, credit_score, foir, risk_band, explanation) ==
    LET emi == calculate_emi(adjusted_amount, tenure)
    IN  [ decision        |-> "ADJUST",
          approved_amount |-> adjusted_amount,
          tenure_months   |-> tenure,
          emi             |-> emi,
          interest_rate   |-> DEFAULT_INTEREST_RATE,
          credit_score    |-> credit_score,
          foir            |-> foir,
          risk_band       |-> risk_band,
          explanation     |-> explanation,
          total_payable   |-> emi * tenure,
          processing_fee  |-> RoundDiv(adjusted_amount * 2, 100, 0) ]


\* A rejection that still charges the processing fee of the request.
create_rejection_response_with_fee(requested_amount, tenure, credit_score, foir, explanation) ==
    [ decision        |-> "REJECTED",
      approved_amount |-> 0,
      tenure_months   |-> tenure,
      emi             |-> 0,
      interest_rate   |-> DEFAULT_INTEREST_RATE,
      credit_score    |-> credit_score,
      foir            |-> foir,
      risk_band       |-> "C",
      explanation     |-> explanation,
      total_payable   |-> 0,
      processing_fee  |-> RoundDiv(requested_amount * 2, 100, 0) ]

\* _create_rejection_response
create_rejection_response(requested_amount, tenure, credit_score, foir, explanation) ==
    [ decision        |-> "REJECTED",
      approved_amount |-> 0,
      tenure_months   |-> tenure,
      emi             |-> 0,
      interest_rate   |-> DEFAULT_INTEREST_RATE,
      credit_score    |-> credit_score,
      foir            |-> foir,
      risk_band       |-> "C",
      explanation     |-> explanation,
      total_payable   |-> 0,
      processing_fee  |-> 0 ]


\* The principal repaid by the instalments when no interest is charged.
adjusted_amount_without_interest(max_affordable_emi, requested_tenure) ==
    max_affordable_emi * requested_tenure

\* max_affordable_emi inverted through the amortization formula and rounded
\* to 2 decimals: maxEmi * ((1+r)^n - 1) / (r * (1+r)^n)
\*              = maxEmi / r * (1 - 1 / (1+r)^n).
adjusted_amount_for(max_affordable_emi, requested_tenure) ==
    IF MonthlyRatePercent > 0
    THEN LET pw == PowRate(requested_tenure)
         IN  ((100 * max_affordable_emi)
                 - RoundDiv(max_affordable_emi, pw, PowDigits + 2)) \div MonthlyRatePercent
    ELSE max_affordable_emi * requested_tenure


\* A ladder whose first rung is open at both thresholds.
make_decision_open_first_rung(credit_score, foir, requested_amount, requested_tenure, monthly_income, existing_emi) ==
    IF credit_score > EXCELLENT_CREDIT_SCORE /\ foir < FOIR_THRESHOLD_A
    THEN create_approval_response(requested_amount, requested_tenure,
                                  credit_score, foir, "A", "approved_band_a")
    ELSE IF credit_score >= GOOD_CREDIT_SCORE /\ foir <= FOIR_THRESHOLD_A
    THEN create_approval_response(requested_amount, requested_tenure,
                                  credit_score, foir, "B", "approved_band_b")
    ELSE create_rejection_response(requested_amount, requested_tenure,
                                   credit_score, foir, "foir")


\* A ladder that offers the affordable amount however small it is.
make_decision_without_floor(credit_score, foir, requested_amount, requested_tenure, monthly_income, existing_emi) ==
    IF credit_score >= EXCELLENT_CREDIT_SCORE /\ foir <= FOIR_THRESHOLD_A
    THEN create_approval_response(requested_amount, requested_tenure,
                                  credit_score, foir, "A", "approved_band_a")
    ELSE IF credit_score >= GOOD_CREDIT_SCORE /\ foir <= FOIR_THRESHOLD_B
    THEN IF foir > FOIR_THRESHOLD_A
         THEN create_adjustment_response(
                  adjusted_amount_for(MulMilli(monthly_income, FOIR_THRESHOLD_A) - existing_emi,
                                      requested_tenure),
                  requested_tenure, credit_score, foir, "B", "approved_with_adjustment")
         ELSE create_approval_response(requested_amount, requested_tenure,
                                       credit_score, foir, "B", "approved_band_b")
    ELSE create_rejection_response(requested_amount, requested_tenure,
                                   credit_score, foir, "foir")


\* A ladder that reports the FOIR of the offer it makes.
make_decision_recomputed_foir(credit_score, foir, requested_amount, requested_tenure, monthly_income, existing_emi) ==
    LET d == make_decision_without_floor(credit_score, foir, requested_amount,
                                         requested_tenure, monthly_income, existing_emi)
    IN  IF d.decision = "ADJUST" /\ d.approved_amount >= MIN_LOAN_AMOUNT * 100
        THEN [ d EXCEPT !.foir = calculate_foir(existing_emi, d.emi, monthly_income) ]
        ELSE IF d.decision = "ADJUST"
        THEN create_rejection_response(requested_amount, requested_tenure,
                                       credit_score, foir, "affordable_below_minimum")
        ELSE d

\* _make_decision
make_decision(credit_score, foir, requested_amount, requested_tenure, monthly_income, existing_emi) ==
    IF credit_score >= EXCELLENT_CREDIT_SCORE /\ foir <= FOIR_THRESHOLD_A
    THEN create_approval_response(requested_amount, requested_tenure,
                                  credit_score, foir, "A", "approved_band_a")
    ELSE IF credit_score >= GOOD_CREDIT_SCORE /\ foir <= FOIR_THRESHOLD_B
    THEN IF foir > FOIR_THRESHOLD_A
         THEN LET max_affordable_emi ==
                      MulMilli(monthly_income, FOIR_THRESHOLD_A) - existing_emi
                  adjusted_amount == adjusted_amount_for(max_affordable_emi, requested_tenure)
              IN  IF adjusted_amount < MIN_LOAN_AMOUNT * 100
                  THEN create_rejection_response(requested_amount, requested_tenure,
                                                 credit_score, foir, "affordable_below_minimum")
                  ELSE create_adjustment_response(adjusted_amount, requested_tenure,
                                                  credit_score, foir, "B", "approved_with_adjustment")
         ELSE create_approval_response(requested_amount, requested_tenure,
                                       credit_score, foir, "B", "approved_band_b")
    ELSE create_rejection_response(
             requested_amount, requested_tenure, credit_score, foir,
             IF credit_score < GOOD_CREDIT_SCORE /\ foir > FOIR_THRESHOLD_B
             THEN "credit_score_and_foir"
             ELSE IF credit_score < GOOD_CREDIT_SCORE THEN "credit_score" ELSE "foir")

\* evaluate_application
evaluate_application(user_profile, requested_amount, requested_tenure_months) ==
    LET monthly_income == user_profile.monthly_income
        existing_emi   == user_profile.existing_emi
        credit_score   == user_profile.mock_credit_score
        validation_error ==
            validate_loan_request(requested_amount, requested_tenure_months, monthly_income)
    IN  IF validation_error # ""
        THEN create_rejection_response(requested_amount, requested_tenure_months,
                                       credit_score, 0, validation_error)
        ELSE LET emi  == calculate_emi(requested_amount, requested_tenure_months)
                 foir == calculate_foir(existing_emi, emi, monthly_income)
             IN  make_decision(credit_score, foir, requested_amount,
                               requested_tenure_months, monthly_income, existing_emi)

(***************************************************************************)
(* Bounds of the model                                                     *)
(***************************************************************************)
\* Sessions that create_session may create in one run.
MaxSessions == 2
\* Chat requests handled in one run.
MaxTurns == 2

(***************************************************************************)
(* Inputs: message texts, users and their Firestore profiles               *)
(***************************************************************************)
\* Python's None where a dict is expected, and where a string is expected.
None == [none |-> TRUE]
NoDecision == "None"

ProfileKeys == {"user_id", "full_name", "email", "monthly_income", "existing_emi",
                "mock_credit_score"}

\* "I need ₹5,00,000 for 36 months"
MsgScenario4 == << "I", " ", "n", "e", "e", "d", " ", "RUPEE", "5", ",", "0", "0", ",", "0", "0", "0", " ", "f", "o", "r", " ", "3", "6", " ", "m", "o", "n", "t", "h", "s" >>
\* "5 lakh for 24 months"
MsgScenario5 == << "5", " ", "l", "a", "k", "h", " ", "f", "o", "r", " ", "2", "4", " ", "m", "o", "n", "t", "h", "s" >>
\* "yes"
MsgYes == << "y", "e", "s" >>
\* "hello"
MsgHello == << "h", "e", "l", "l", "o" >>
\* "OK 300000 for 36 Months"
MsgYesTerms == << "O", "K", " ", "3", "0", "0", "0", "0", "0", " ", "f", "o", "r", " ", "3", "6", " ", "M", "o", "n", "t", "h", "s" >>
\* "1000 for 12 months"
MsgSmall == << "1", "0", "0", "0", " ", "f", "o", "r", " ", "1", "2", " ", "m", "o", "n", "t", "h", "s" >>
\* "I need a loan of 5 lakh"
MsgAmountOnly == << "I", " ", "n", "e", "e", "d", " ", "a", " ", "l", "o", "a", "n", " ", "o", "f", " ", "5", " ", "l", "a", "k", "h" >>

\* The texts a client may send, by name.
MessageText ==
    [ scenario4   |-> MsgScenario4,
      scenario5   |-> MsgScenario5,
      yes         |-> MsgYes,
      hello       |-> MsgHello,
      yes_terms   |-> MsgYesTerms,
      small       |-> MsgSmall,
      amount_only |-> MsgAmountOnly ]

Messages == DOMAIN MessageText

UserIds == {"u_young", "u_mid", "u_partial", "u_ghost"}

\* Documents of the Firestore collection "users": two of the signup profiles
\* of mock_profiles.py, a document without the key monthly_income (keys is
\* the set of keys the document has), and no document.
Users ==
    [ u_young   |-> [ keys |-> ProfileKeys,
                      user_id |-> "u_young", full_name |-> "Young", email |-> "young@x",
                      monthly_income |-> 7500000, existing_emi |-> 800000,
                      mock_credit_score |-> 750 ],
      u_mid     |-> [ keys |-> ProfileKeys,
                      user_id |-> "u_mid", full_name |-> "Mid", email |-> "mid@x",
                      monthly_income |-> 5000000, existing_emi |-> 1200000,
                      mock_credit_score |-> 680 ],
      u_partial |-> [ keys |-> ProfileKeys \ {"monthly_income"},
                      user_id |-> "u_partial", full_name |-> "Partial", email |-> "partial@x",
                      monthly_income |-> 0, existing_emi |-> 0,
                      mock_credit_score |-> 700 ],
      u_ghost   |-> None ]

\* FirebaseService._get_mock_user_profile
get_mock_user_profile(user_id) ==
    [ keys |-> ProfileKeys,
      user_id |-> user_id, full_name |-> "John Doe", email |-> "john.doe@example.com",
      monthly_income |-> 7500000, existing_emi |-> 500000, mock_credit_score |-> 720 ]

(***************************************************************************)
(* State                                                                   *)
(***************************************************************************)
VARIABLES
    initialized,        \* FirebaseService.initialized, fixed by its constructor
    sessions,           \* SessionService._sessions: session id -> session or None
    next_session,       \* the next id create_session hands out (uuid4: never reused)
    loan_applications,  \* the Firestore collection "loan_applications"
    turns,              \* chat requests handled so far
    last                \* the last request, its response and what the handler called

vars == << initialized, sessions, next_session, loan_applications, turns, last >>

SessionIds == 1..MaxSessions

\* A request may also name a session that does not exist ("undefined...").
NoSession == 0

(***************************************************************************)
(* What the environment decides during one request: whether the read of    *)
(* the Firestore "users" collection by each tool fails (get_user_profile   *)
(* then returns None), whether the write to "loan_applications" fails, and *)
(* which call of the session store raises ("none" for the in-memory store  *)
(* of the repository).                                                     *)
(***************************************************************************)
StoreFaults == {"get_session", "tool_update", "agent_update", "create_get_session"}

NoFault ==
    [ tool_lookup_down |-> FALSE, create_lookup_down |-> FALSE,
      loans_down |-> FALSE, store_fault |-> "none" ]

\* Firestore answers every read; its write may fail; the session store is
\* the in-memory dict.
RealEnvs == { [NoFault EXCEPT !.loans_down = b] : b \in BOOLEAN }

\* At most one collaborator call fails, the session store included.
FaultEnvs ==
    {NoFault}
        \cup { [NoFault EXCEPT !.tool_lookup_down = TRUE],
               [NoFault EXCEPT !.create_lookup_down = TRUE],
               [NoFault EXCEPT !.loans_down = TRUE] }
        \cup { [NoFault EXCEPT !.store_fault = f] : f \in StoreFaults }

(***************************************************************************)
(* FirebaseService (firebase_service.py)                                   *)
(***************************************************************************)
\* get_user_profile: the mock profile without Firebase, else the document,
\* None when there is none or the read fails.
get_user_profile(init, user_id, down) ==
    IF ~init THEN get_mock_user_profile(user_id)
    ELSE IF down THEN None
    ELSE Users[user_id]

\* create_loan_application: [raised, loans, returned].  Without Firebase
\* nothing is stored and mock data is returned; else the document is stored
\* under a fresh id, or the write raises.
create_loan_application(init, loans, loan_data, down) ==
    IF ~init
    THEN [ raised |-> FALSE, loans |-> loans,
           returned |-> [loan_id |-> "mock_loan_123"] @@ loan_data ]
    ELSE IF down
    THEN [ raised |-> TRUE, loans |-> loans, returned |-> None ]
    ELSE LET doc == [loan_id |-> Len(loans) + 1] @@ loan_data
         IN  [ raised |-> FALSE, loans |-> Append(loans, doc), returned |-> doc ]

(***************************************************************************)
(* PdfService (pdf_service.py)                                             *)
(***************************************************************************)
\* The parameters of generate_sanction_letter(self, loan_data).
generate_sanction_letter_params == {"loan_data"}

\* A call with keyword arguments binds only if every keyword names a
\* parameter and every parameter is given; otherwise Python raises TypeError
\* before the body runs.  [raised, returned]
generate_sanction_letter(keywords, pdf_fails) ==
    IF keywords # generate_sanction_letter_params
    THEN [ raised |-> TRUE, returned |-> None ]
    ELSE IF pdf_fails
    THEN [ raised |-> TRUE, returned |-> None ]
    ELSE [ raised |-> FALSE, returned |-> [pdf_path |-> "path", pdf_url |-> "url"] ]

(***************************************************************************)
(* SessionService (session_service.py)                                     *)
(***************************************************************************)
_max_history == 20

\* create_session: the new session's record.
new_session(user_id) ==
    [ user_id       |-> user_id,
      current_step  |-> "WELCOME",
      loan_decision |-> None,
      chat_history  |-> << >>,
      user_profile  |-> None ]

\* get_session
get_session(S, session_id) ==
    IF session_id \in DOMAIN S THEN S[session_id] ELSE None

\* A store that accepts the update and keeps nothing.
update_session_lost(S, session_id, d, step) == S

\* A store that keeps the decision and not the step that comes with it.
update_session_decision_only(S, session_id, d, step) ==
    IF get_session(S, session_id) = None THEN S
    ELSE [S EXCEPT ![session_id].loan_decision = d]


\* A store that writes the update into every session it holds.
update_session_everywhere(S, session_id, d, step) ==
    IF get_session(S, session_id) = None THEN S
    ELSE [ s \in DOMAIN S |->
             IF S[s] = None THEN None
             ELSE [S[s] EXCEPT !.loan_decision = d, !.current_step = step] ]

\* update_session with updates {"loan_decision": d, "current_step": step};
\* a session that does not exist is left alone (the call returns False).
update_session(S, session_id, d, step) ==
    IF get_session(S, session_id) = None THEN S
    ELSE [S EXCEPT ![session_id].loan_decision = d,
                   ![session_id].current_step = step]


\* A history that keeps its first _max_history entries and drops new ones.
add_to_chat_history_keep_oldest(S, session_id, role, content) ==
    IF get_session(S, session_id) = None THEN S
    ELSE LET h == Append(S[session_id].chat_history,
                         [role |-> role, content |-> content])
         IN  [S EXCEPT ![session_id].chat_history =
                 IF Len(h) > _max_history THEN SubSeq(h, 1, _max_history) ELSE h]

\* add_to_chat_history: append, then keep the last _max_history entries.
add_to_chat_history(S, session_id, role, content) ==
    IF get_session(S, session_id) = None THEN S
    ELSE LET h == Append(S[session_id].chat_history,
                         [role |-> role, content |-> content])
         IN  [S EXCEPT ![session_id].chat_history =
                 IF Len(h) > _max_history
                 THEN SubSeq(h, Len(h) - _max_history + 1, Len(h))
                 ELSE h]

\* set_user_profile
set_user_profile(S, session_id, user_profile) ==
    IF get_session(S, session_id) = None THEN S
    ELSE [S EXCEPT ![session_id].user_profile = user_profile]

\* get_user_profile of the session service
session_user_profile(S, session_id) ==
    IF get_session(S, session_id) = None THEN None
    ELSE S[session_id].user_profile

\* set_step
set_step(S, session_id, step) ==
    IF get_session(S, session_id) = None THEN S
    ELSE [S EXCEPT ![session_id].current_step = step]

\* get_step
get_step(S, session_id) ==
    IF get_session(S, session_id) = None THEN "WELCOME"
    ELSE S[session_id].current_step

\* get_chat_history
get_chat_history(S, session_id) ==
    IF get_session(S, session_id) = None THEN << >>
    ELSE S[session_id].chat_history

(***************************************************************************)
(* Master agent, reading the message (master_agent.py lines 49-64, 112-114) *)
(***************************************************************************)
\* ["yes", "ok", "sure", "accept", "proceed", "generate"]
AcceptWords ==
    { << "y", "e", "s" >>,
      << "o", "k" >>,
      << "s", "u", "r", "e" >>,
      << "a", "c", "c", "e", "p", "t" >>,
      << "p", "r", "o", "c", "e", "e", "d" >>,
      << "g", "e", "n", "e", "r", "a", "t", "e" >> }

WordLakh == << "l", "a", "k", "h" >>
WordMonth == << "m", "o", "n", "t", "h" >>

\* The test that opens STATE 1: a rupee sign, "lakh", "month" or any digit.
has_loan_cue(user_message) ==
    \/ Contains(<< "RUPEE" >>, user_message)
    \/ Contains(WordLakh, lower(user_message))
    \/ Contains(WordMonth, lower(user_message))
    \/ \E i \in 1..Len(user_message) : isdigit(user_message[i])

\* The amount and tenure STATE 1 extracts: [found, amount, tenure].
extract_loan_terms(user_message) ==
    LET user_message_lower == lower(user_message)
        am == amount_match(StripCommas(user_message))
        tm == tenure_match(user_message_lower)
    IN  IF has_loan_cue(user_message) /\ am # NoMatch /\ tm # NoMatch
        THEN LET amount == ToNumber(am)
             IN  [ found  |-> TRUE,
                   amount |-> IF Contains(WordLakh, user_message_lower) /\ amount < 1000
                              THEN amount * 100000 ELSE amount,
                   tenure |-> ToNumber(tm) ]
        ELSE [ found |-> FALSE, amount |-> 0, tenure |-> 0 ]

\* What the texts of the model yield, computed once.
MessageTerms == [m \in Messages |-> extract_loan_terms(MessageText[m])] @@ << >>

MessageAccepts ==
    [m \in Messages |-> ContainsAny(AcceptWords, lower(MessageText[m]))] @@ << >>

(***************************************************************************)
(* Loan tools (agents/tools.py).  Each tool is a body inside try/except:   *)
(* the body either returns or raises, and the except clause turns a raise  *)
(* into {"success": False}.  What the body changed before it raised stays. *)
(***************************************************************************)
\* underwriting_service.evaluate_loan(monthly_income=..., existing_emi=...,
\* credit_score=..., requested_amount=..., requested_tenure_months=...):
\* the engine's entry point as tools.py calls it; the amount arrives in
\* rupees.
evaluate_loan(income, emis, score, amount, tenure) ==
    evaluate_application(
        [ monthly_income |-> income, existing_emi |-> emis, mock_credit_score |-> score ],
        amount * 100, tenure)

\* The engine is a pure function of its arguments: its results for the
\* profiles and the loan terms of the model, computed once.
EngineCalls ==
    { << p.monthly_income, p.existing_emi, p.mock_credit_score, t.amount, t.tenure >> :
        p \in { q \in {Users[u] : u \in UserIds} \cup {get_mock_user_profile("")} :
                   q # None },
        t \in { MessageTerms[m] : m \in Messages } }

evaluate_loan_results ==
    [ c \in EngineCalls |-> evaluate_loan(c[1], c[2], c[3], c[4], c[5]) ] @@ << >>

Failure(error) == [success |-> FALSE, error |-> error]

\* A variant that evaluates the request a second time before storing.
underwritten_twice(S, session_id, decision, env) ==
    IF env.store_fault = "tool_update"
    THEN [ raised |-> TRUE, result |-> "StoreError", sessions |-> S,
           evaluations |-> 2, events |-> {"session_store_raised"} ]
    ELSE [ raised |-> FALSE,
           result |-> [success |-> TRUE] @@ decision,
           sessions |-> update_session(S, session_id, decision, decision.decision),
           evaluations |-> 2, events |-> {} ]

\* run_underwriting_func once the engine has been evaluated (once): the
\* decision is stored in the session and returned.
underwritten(S, session_id, decision, env) ==
    IF env.store_fault = "tool_update"
    THEN [ raised |-> TRUE, result |-> "StoreError", sessions |-> S,
           evaluations |-> 1, events |-> {"session_store_raised"} ]
    ELSE [ raised |-> FALSE,
           result |-> [success |-> TRUE] @@ decision,
           sessions |-> update_session(S, session_id, decision, decision.decision),
           evaluations |-> 1, events |-> {} ]

\* The try block of run_underwriting_func:
\* [raised, result, sessions, evaluations, events].
run_underwriting_body(init, S, user_id, session_id, requested_amount, requested_tenure_months, env) ==
    LET Fetched(profile) ==
            IF profile = None
            THEN [ raised |-> FALSE, result |-> Failure("User profile not found"),
                   sessions |-> S, evaluations |-> 0,
                   events |-> {"profile_lookup_failed"} ]
            ELSE IF ~({"monthly_income", "mock_credit_score"} \subseteq profile.keys)
            THEN \* profile["monthly_income"] raises KeyError
                 [ raised |-> TRUE, result |-> "KeyError", sessions |-> S,
                   evaluations |-> 0, events |-> {"engine_call_raised"} ]
            ELSE underwritten(S, session_id,
                              evaluate_loan_results[
                                  << profile.monthly_income, profile.existing_emi,
                                     profile.mock_credit_score,
                                     requested_amount, requested_tenure_months >> ],
                              env)
    IN  Fetched(get_user_profile(init, user_id, env.tool_lookup_down))

\* except Exception: {"success": False, "error": str(e)}
tool_except(r) ==
    IF r.raised THEN [r EXCEPT !.raised = FALSE, !.result = Failure(r.result)]
    ELSE r

\* run_underwriting_func
run_underwriting_func(init, S, user_id, session_id, requested_amount, requested_tenure_months, env) ==
    tool_except(run_underwriting_body(init, S, user_id, session_id, requested_amount,
                                      requested_tenure_months, env))

\* The keyword arguments of the call of pdf_service.generate_sanction_letter.
sanction_letter_call_keywords ==
    {"loan_id", "user_name", "loan_amount", "tenure_months", "emi",
     "interest_rate", "risk_band"}

\* The try block of create_loan_application_func:
\* [raised, result, loans, store_calls, events].
create_loan_application_body(init, S, loans, user_id, session_id, env) ==
    LET Out(raised, result, L, calls, events) ==
            [ raised |-> raised, result |-> result, loans |-> L,
              store_calls |-> calls, events |-> events ]
        Lettered(decision, created, pdf) ==
            IF pdf.raised
            THEN Out(TRUE, "TypeError", created.loans, 1, {"document_generation_failed"})
            ELSE Out(FALSE,
                     [ success         |-> TRUE,
                       loan_id         |-> created.returned,
                       approved_amount |-> decision.approved_amount,
                       emi             |-> decision.emi,
                       tenure_months   |-> decision.tenure_months ],
                     created.loans, 1, {})
        Created(decision, created) ==
            IF created.raised
            THEN Out(TRUE, "FirestoreError", created.loans, 1,
                     {"application_store_failed"})
            ELSE Lettered(decision, created,
                          generate_sanction_letter(sanction_letter_call_keywords, FALSE))
        Fetched(decision, profile) ==
            IF profile = None
            THEN Out(FALSE, Failure("User profile not found"), loans, 0,
                     {"profile_lookup_failed"})
            ELSE IF ~({"full_name", "email"} \subseteq profile.keys)
            THEN Out(TRUE, "KeyError", loans, 0, {})
            ELSE Created(decision,
                     create_loan_application(init, loans,
                         [ user_id                 |-> user_id,
                           full_name               |-> profile.full_name,
                           email                   |-> profile.email,
                           requested_amount        |-> decision.approved_amount,
                           requested_tenure_months |-> decision.tenure_months,
                           approved_amount         |-> decision.approved_amount,
                           tenure_months           |-> decision.tenure_months,
                           emi                     |-> decision.emi,
                           interest_rate           |-> decision.interest_rate,
                           credit_score            |-> decision.credit_score,
                           foir                    |-> decision.foir,
                           decision                |-> "APPROVED",
                           risk_band               |-> decision.risk_band,
                           explanation             |-> decision.explanation ],
                         env.loans_down))
        Read(session) ==
            IF session = None \/ session.loan_decision = None
            THEN Out(FALSE, Failure("No loan decision found in session"), loans, 0, {})
            ELSE IF session.loan_decision.decision \notin {"APPROVED", "ADJUST"}
            THEN Out(FALSE, Failure("Cannot create sanction letter"), loans, 0, {})
            ELSE Fetched(session.loan_decision,
                         get_user_profile(init, user_id, env.create_lookup_down))
    IN  IF env.store_fault = "create_get_session"
        THEN Out(TRUE, "StoreError", loans, 0, {"session_store_raised"})
        ELSE Read(get_session(S, session_id))

\* A tool that deletes the record it created when a later step fails.
create_loan_application_func_compensating(init, S, loans, user_id, session_id, env) ==
    LET Compensated(r) == IF r.result.success THEN r ELSE [r EXCEPT !.loans = loans]
    IN  Compensated(tool_except(create_loan_application_body(init, S, loans, user_id,
                                                             session_id, env)))

\* create_loan_application_func
create_loan_application_func(init, S, loans, user_id, session_id, env) ==
    tool_except(create_loan_application_body(init, S, loans, user_id, session_id, env))

(***************************************************************************)
(* MasterAgent.process_message_simple (agents/master_agent.py)             *)
(***************************************************************************)
WelcomeReply == [kind |-> "welcome"]

ApologyReply == [kind |-> "apology"]

\* The reply of STATE 1 for an underwriting result.
decision_reply(result) ==
    IF result.decision = "APPROVED"
    THEN [ kind |-> "approved", approved_amount |-> result.approved_amount,
           tenure_months |-> result.tenure_months, emi |-> result.emi,
           interest_rate |-> result.interest_rate ]
    ELSE [ kind |-> "explanation", explanation |-> result.explanation ]

\* The reply of STATE 2 for a created application.
sanction_reply(result) ==
    [ kind |-> "sanction", loan_id |-> result.loan_id,
      approved_amount |-> result.approved_amount,
      tenure_months |-> result.tenure_months, emi |-> result.emi ]

Response(reply, decision, loan_id, session_id) ==
    [ reply |-> reply, decision |-> decision, loan_id |-> loan_id,
      session_id |-> session_id ]

\* STATE 2 without the test of the stored decision.
qualifies_any(loan_decision) == TRUE

\* STATE 2 testing only that some decision is stored.
qualifies_truthy(loan_decision) == loan_decision # None

\* loan_decision and loan_decision.get("decision") in ["APPROVED", "ADJUST"]
qualifies(loan_decision) ==
    /\ loan_decision # None
    /\ loan_decision.decision \in {"APPROVED", "ADJUST"}

\* The try block of process_message_simple: [raised, response, sessions,
\* loans, evaluations, create_calls, store_calls, events].
process_message_body(init, S, loans, user_id, session_id, message, env) ==
    LET Out(raised, response, S2, L2, evaluations, create_calls, store_calls, events) ==
            [ raised |-> raised, response |-> response, sessions |-> S2, loans |-> L2,
              evaluations |-> evaluations, create_calls |-> create_calls,
              store_calls |-> store_calls, events |-> events ]
        NoUnderwriting ==
            [ raised |-> FALSE, result |-> Failure("not run"), sessions |-> S,
              evaluations |-> 0, events |-> {} ]
        NoCreation ==
            [ raised |-> FALSE, result |-> Failure("not run"), loans |-> loans,
              store_calls |-> 0, events |-> {} ]
        \* the end of STATE 2, and the default reply
        State2(uw, accepts, cr) ==
            IF accepts /\ cr.result.success
            THEN Out(FALSE,
                     Response(sanction_reply(cr.result), "APPROVED",
                              cr.result.loan_id, session_id),
                     uw.sessions, cr.loans, uw.evaluations, 1, cr.store_calls,
                     uw.events \cup cr.events)
            ELSE Out(FALSE, Response(WelcomeReply, NoDecision, None, session_id),
                     uw.sessions, cr.loans, uw.evaluations,
                     IF accepts THEN 1 ELSE 0, cr.store_calls,
                     uw.events \cup cr.events)
        Accepting(uw, accepts) ==
            State2(uw, accepts,
                   IF accepts
                   THEN create_loan_application_func(init, uw.sessions, loans,
                                                     user_id, session_id, env)
                   ELSE NoCreation)
        \* session is the store's own dict, read as it is now
        Deciding(uw, session) ==
            Accepting(uw, /\ MessageAccepts[message]
                          /\ qualifies(IF session = None THEN None
                                       ELSE session.loan_decision))
        \* the end of STATE 1, or on to STATE 2
        State1(terms, uw) ==
            IF terms.found /\ uw.result.success
            THEN IF env.store_fault = "agent_update"
                 THEN Out(TRUE, None, uw.sessions, loans, uw.evaluations, 0, 0,
                          {"session_store_raised"})
                 ELSE Out(FALSE,
                          Response(decision_reply(uw.result), uw.result.decision,
                                   None, session_id),
                          update_session(uw.sessions, session_id, uw.result,
                                         uw.result.decision),
                          loans, uw.evaluations, 0, 0, uw.events)
            ELSE Deciding(uw, get_session(uw.sessions, session_id))
        Extracted(terms) ==
            State1(terms,
                   IF terms.found
                   THEN run_underwriting_func(init, S, user_id, session_id,
                                              terms.amount, terms.tenure, env)
                   ELSE NoUnderwriting)
    IN  IF env.store_fault = "get_session"
        THEN Out(TRUE, None, S, loans, 0, 0, 0, {"session_store_raised"})
        ELSE Extracted(MessageTerms[message])

\* No except clause: what the try block raises reaches the caller.
agent_except_absent(r, session_id) == r

\* except Exception: the apology
agent_except(r, session_id) ==
    IF r.raised
    THEN [r EXCEPT !.raised = FALSE,
                   !.response = Response(ApologyReply, NoDecision, None, session_id)]
    ELSE r


\* A state machine that listens to an acceptance only in the stage that
\* follows an approval.
process_message_by_stage(init, S, loans, user_id, session_id, message, env) ==
    IF /\ MessageAccepts[message]
       /\ ~MessageTerms[message].found
       /\ get_step(S, session_id) # "SANCTION_GENERATED"
    THEN [ raised |-> FALSE,
           response |-> Response(WelcomeReply, NoDecision, None, session_id),
           sessions |-> S, loans |-> loans, evaluations |-> 0,
           create_calls |-> 0, store_calls |-> 0, events |-> {} ]
    ELSE agent_except(process_message_body(init, S, loans, user_id, session_id,
                                           message, env), session_id)


\* A state machine that goes on to STATE 2 after it has announced a
\* decision: a message that also accepts is handled as an acceptance of
\* the decision just stored.
process_message_falling_through(init, S, loans, user_id, session_id, message, env) ==
    LET Through(r) ==
            IF /\ ~r.raised
               /\ MessageTerms[message].found
               /\ MessageAccepts[message]
               /\ r.evaluations = 1
               /\ r.create_calls = 0
            THEN LET Joined(q) ==
                         [ q EXCEPT !.evaluations = r.evaluations,
                                    !.events = r.events \cup q.events ]
                 IN  Joined(agent_except(process_message_body(init, r.sessions, r.loans,
                                                              user_id, session_id, "yes", env),
                                         session_id))
            ELSE r
    IN  Through(agent_except(process_message_body(init, S, loans, user_id, session_id,
                                                  message, env), session_id))

\* process_message_simple
process_message_simple(init, S, loans, user_id, session_id, message, env) ==
    agent_except(process_message_body(init, S, loans, user_id, session_id, message, env),
                 session_id)

\* master_agent.chat(session_id, user_id, message), as chat.py calls the
\* agent: the message is handled by the state machine.
master_agent_chat(init, S, loans, session_id, user_id, message, env) ==
    process_message_simple(init, S, loans, user_id, session_id, message, env)

(***************************************************************************)
(* Chat router (routers/chat.py)                                           *)
(***************************************************************************)
\* ["loan", "need", "want", "borrow", "₹", "rs", "rupees"]
LoanWords ==
    { << "l", "o", "a", "n" >>,
      << "n", "e", "e", "d" >>,
      << "w", "a", "n", "t" >>,
      << "b", "o", "r", "r", "o", "w" >>,
      << "RUPEE" >>,
      << "r", "s" >>,
      << "r", "u", "p", "e", "e", "s" >> }

\* ["amount", "for", "of", "months", "year", "tenure"]
DetailWords ==
    { << "a", "m", "o", "u", "n", "t" >>,
      << "f", "o", "r" >>,
      << "o", "f" >>,
      << "m", "o", "n", "t", "h", "s" >>,
      << "y", "e", "a", "r" >>,
      << "t", "e", "n", "u", "r", "e" >> }

\* ["yes", "confirm", "correct", "proceed", "ok", "sure"]
ConfirmWords ==
    { << "y", "e", "s" >>,
      << "c", "o", "n", "f", "i", "r", "m" >>,
      << "c", "o", "r", "r", "e", "c", "t" >>,
      << "p", "r", "o", "c", "e", "e", "d" >>,
      << "o", "k" >>,
      << "s", "u", "r", "e" >> }

MessageAsksLoan ==
    [m \in Messages |-> /\ ContainsAny(LoanWords, lower(MessageText[m]))
                        /\ ContainsAny(DetailWords, lower(MessageText[m]))]

MessageConfirms == [m \in Messages |-> ContainsAny(ConfirmWords, lower(MessageText[m]))]

\* The step chat() sets after the agent has answered.
new_step(current_step, decision, message, history_len) ==
    IF decision # NoDecision
    THEN IF decision \in {"APPROVED", "ADJUST"} THEN "SANCTION_GENERATED"
         ELSE IF decision = "REJECTED" THEN "REJECTED"
         ELSE current_step
    ELSE IF MessageAsksLoan[message] THEN "GATHERING_DETAILS"
    ELSE IF current_step = "GATHERING_DETAILS" /\ MessageConfirms[message]
    THEN "UNDERWRITING"
    ELSE IF current_step = "WELCOME" /\ history_len > 2 THEN "GATHERING_DETAILS"
    ELSE current_step

NoTurn ==
    [ kind |-> "none" ]

\* POST /chat: the whole handler.  The read of the profile that the handler
\* itself makes only fills the session's cached profile.
chat(request_session_id, user_id, message, env) ==
    LET existing == get_session(sessions, request_session_id)
        session_id == IF existing # None THEN request_session_id ELSE next_session
        Replied(r, before, current_step, S3, step) ==
            /\ loan_applications' = r.loans
            /\ IF r.raised
               THEN \* the handler answers HTTP 500; what was written stays
                    /\ sessions' = r.sessions
                    /\ last' = [ kind |-> "error", session_id |-> session_id,
                                 user_id |-> user_id, message |-> message,
                                 events |-> r.events ]
               ELSE /\ sessions' = set_step(S3, session_id, step)
                    /\ last' = [ kind            |-> "reply",
                                 session_id      |-> session_id,
                                 user_id         |-> user_id,
                                 message         |-> message,
                                 reply           |-> r.response.reply,
                                 decision        |-> r.response.decision,
                                 loan_id         |-> r.response.loan_id,
                                 step            |-> step,
                                 before_decision |-> before.loan_decision,
                                 before_step     |-> current_step,
                                 after_decision  |-> S3[session_id].loan_decision,
                                 evaluations     |-> r.evaluations,
                                 create_calls    |-> r.create_calls,
                                 store_calls     |-> r.store_calls,
                                 records_before  |-> Len(loan_applications),
                                 records_after   |-> Len(r.loans),
                                 machine_step    |-> get_step(r.sessions, session_id),
                                 events          |-> r.events ]
        Stepped(r, before, current_step, S3) ==
            Replied(r, before, current_step, S3,
                    new_step(current_step, r.response.decision, message,
                             Len(get_chat_history(S3, session_id))))
        Answered(S2, r) ==
            Stepped(r, S2[session_id], get_step(S2, session_id),
                    add_to_chat_history(r.sessions, session_id, "assistant",
                                        r.response.reply))
        Recorded(S2) ==
            Answered(S2, master_agent_chat(initialized, S2, loan_applications,
                                           session_id, user_id, message, env))
        Profiled(S0, fetched) ==
            Recorded(add_to_chat_history(
                         IF session_user_profile(S0, session_id) = None /\ fetched # None
                         THEN set_user_profile(S0, session_id, fetched)
                         ELSE S0,
                         session_id, "user", message))
    IN  /\ turns < MaxTurns
        /\ existing # None \/ next_session <= MaxSessions
        /\ turns' = turns + 1
        /\ next_session' = IF existing # None THEN next_session ELSE next_session + 1
        /\ UNCHANGED initialized
        /\ Profiled(IF existing # None THEN sessions
                    ELSE [sessions EXCEPT ![session_id] = new_session(user_id)],
                    get_user_profile(initialized, user_id, FALSE))

\* DELETE /chat/session/{session_id}: the session is deleted.
clear_session(session_id) ==
    /\ sessions[session_id] # None
    /\ sessions' = [sessions EXCEPT ![session_id] = None]
    /\ UNCHANGED << initialized, next_session, loan_applications, turns, last >>

Init ==
    /\ initialized \in BOOLEAN
    /\ sessions = [s \in SessionIds |-> None]
    /\ next_session = 1
    /\ loan_applications = << >>
    /\ turns = 0
    /\ last = NoTurn

\* The requests a client sends: it names no session, or one of the ids.
ChatMessages == {"scenario4", "scenario5", "yes", "hello", "yes_terms"}

Chat ==
    \E sid \in SessionIds \cup {NoSession}, u \in UserIds, m \in ChatMessages,
       env \in RealEnvs :
        chat(sid, u, m, env)

ClearSession == \E sid \in SessionIds : clear_session(sid)

Next == Chat \/ ClearSession

Spec == Init /\ [][Next]_vars

\* The same program with at most one failing collaborator call per request,
\* the session store included, for an applicant with a profile and one
\* without.
FaultUsers == {"u_young", "u_ghost"}
FaultMessages == {"scenario4", "yes", "yes_terms"}

ChatFaults ==
    \E sid \in SessionIds \cup {NoSession}, u \in FaultUsers, m \in FaultMessages,
       env \in FaultEnvs :
        chat(sid, u, m, env)

NextFaults == ChatFaults \/ ClearSession

SpecFaults == Init /\ [][NextFaults]_vars

(***************************************************************************)
(* Properties of the conversation state machine.  They are stated on       *)
(* `last`, the record of the last chat turn: what the session held when    *)
(* the turn began, what the handler called, and what it answered.          *)
(***************************************************************************)
\* The last request was answered.
TurnDone == last.kind = "reply"

\* A stored decision that may be turned into an application.
Sanctionable(d) == d # None /\ d.decision \in {"APPROVED", "ADJUST"}

\* An affirmative message from which no loan terms are extracted.
PlainAcceptance(m) == MessageAccepts[m] /\ ~MessageTerms[m].found

\* C1: application creation is invoked (and a record written) only in a turn
\* that begins with the session holding an APPROVED or ADJUST decision, never
\* with no decision or a REJECTED one.
CreationOnlyWithQualifyingDecision ==
    TurnDone /\ ( \/ last.create_calls > 0
                  \/ last.store_calls > 0
                  \/ last.records_after > last.records_before )
        => Sanctionable(last.before_decision)

\* A turn that invoked creation for a session holding an ADJUST decision.
CreationInvokedForAdjust ==
    /\ TurnDone
    /\ last.create_calls = 1
    /\ last.before_decision # None
    /\ last.before_decision.decision = "ADJUST"

\* C2: the stage becomes SANCTION_GENERATED only in a turn that begins with the
\* session holding an APPROVED or ADJUST decision.
SanctionedOnlyFromQualifyingDecision ==
    TurnDone /\ last.step = "SANCTION_GENERATED" /\ last.before_step # "SANCTION_GENERATED"
        => Sanctionable(last.before_decision)

\* C3: an affirmative message without loan terms, in a session holding no
\* decision or a REJECTED one, gets the welcome reply, with no decision and
\* no loan id, and creation is not invoked.
AcceptanceWithoutDecisionIsWelcomed ==
    TurnDone /\ PlainAcceptance(last.message) /\ ~Sanctionable(last.before_decision)
        => /\ last.reply = WelcomeReply
           /\ last.decision = NoDecision
           /\ last.loan_id = None
           /\ last.create_calls = 0
           /\ last.records_after = last.records_before

\* "yes" arrived in a session holding a REJECTED decision.
AcceptanceAfterRejection ==
    /\ TurnDone
    /\ last.message = "yes"
    /\ last.before_decision # None
    /\ last.before_decision.decision = "REJECTED"
    /\ last.reply = WelcomeReply

\* What a failing collaborator leaves in the events of a turn.
CollaboratorFailures ==
    {"profile_lookup_failed", "engine_call_raised", "session_store_raised",
     "application_store_failed"}

\* C4: an affirmative message without loan terms, in a session holding an
\* APPROVED or ADJUST decision and with every collaborator succeeding, invokes
\* creation, leaves the stage SANCTION_GENERATED and is answered with the
\* loan id.
AcceptanceIssuesSanction ==
    ( /\ TurnDone
      /\ PlainAcceptance(last.message)
      /\ Sanctionable(last.before_decision)
      /\ last.events \cap CollaboratorFailures = {} )
        => /\ last.create_calls = 1
           /\ last.step = "SANCTION_GENERATED"
           /\ last.reply.kind = "sanction"
           /\ last.loan_id # None

\* C5: when the reply carries an outcome that underwriting produced in this
\* turn, the session holds that decision after the turn, with the terms the
\* reply announces.
AnnouncedDecisionIsStored ==
    TurnDone /\ last.evaluations > 0 /\ last.decision \in {"APPROVED", "ADJUST", "REJECTED"}
        => /\ last.after_decision # None
           /\ last.after_decision.decision = last.decision
           /\ last.reply.kind = "approved"
                  => /\ last.after_decision.approved_amount = last.reply.approved_amount
                     /\ last.after_decision.tenure_months = last.reply.tenure_months
                     /\ last.after_decision.emi = last.reply.emi
           /\ last.reply.kind = "explanation"
                  => last.after_decision.explanation = last.reply.explanation

\* A turn announced ADJUST for terms it evaluated.
AdjustAnnounced ==
    TurnDone /\ last.evaluations = 1 /\ last.decision = "ADJUST"

\* C6: one message causes at most one evaluation by the underwriting engine
\* and at most one invocation of application creation.
AtMostOneEvaluationAndCreation ==
    TurnDone
        => /\ last.evaluations <= 1
           /\ last.create_calls <= 1
           /\ last.store_calls <= 1
           /\ last.records_after <= last.records_before + 1

\* A message that accepts and carries terms, in a session that holds an
\* APPROVED or ADJUST decision, was evaluated.
AcceptanceWithTermsEvaluated ==
    /\ TurnDone
    /\ last.message = "yes_terms"
    /\ Sanctionable(last.before_decision)
    /\ last.evaluations = 1

\* C7: when the profile lookup, the engine or the session store fails in a
\* turn, the reply is the apology, no application is created, and the
\* session's decision and stage are what they were before the message.
FailureLeavesStateUnchanged ==
    ( /\ TurnDone
      /\ last.events \cap {"profile_lookup_failed", "engine_call_raised",
                           "session_store_raised"} # {} )
        => /\ last.reply = ApologyReply
           /\ last.records_after = last.records_before
           /\ last.after_decision = last.before_decision
           /\ last.step = last.before_step

RecordSurvivesDocumentFailure ==
    TurnDone /\ initialized /\ "document_generation_failed" \in last.events
        => /\ last.records_after = last.records_before + 1
           /\ Len(loan_applications) >= last.records_after
           /\ loan_applications[last.records_after].user_id = last.user_id

\* Document generation failed and the record is there.
RecordKeptAfterDocumentFailure ==
    /\ TurnDone
    /\ initialized
    /\ "document_generation_failed" \in last.events
    /\ Len(loan_applications) = 1

\* C10: every message is answered with exactly one reply, whatever the text,
\* the session state and the outcome of each collaborator call; nothing is
\* raised to the caller.
AlwaysOneReply ==
    turns > 0
        => /\ last.kind = "reply"
           /\ last.reply.kind \in {"welcome", "apology", "approved", "explanation",
                                   "sanction"}

\* The session store raised and the turn was answered with the apology.
ApologyAfterStoreFailure ==
    /\ TurnDone
    /\ "session_store_raised" \in last.events
    /\ last.reply = ApologyReply

(***************************************************************************)
(* The underwriting engine on its own.  evaluate_application and           *)
(* _calculate_emi are public methods of the singleton underwriting_service;*)
(* here they are applied to requests that the initial state draws: `last`  *)
(* holds the calls still to be made (queue) and what the calls made so far *)
(* returned (done).                                                        *)
(***************************************************************************)
\* The arguments _calculate_emi receives during one evaluate_application, in
\* order: the requested amount after validation, then the amount of the
\* approval or adjustment response.  A call that raises ends the evaluation.
emi_calls(user_profile, requested_amount, requested_tenure_months) ==
    LET first == << requested_amount, requested_tenure_months >>
    IN  IF validate_loan_request(requested_amount, requested_tenure_months,
                                 user_profile.monthly_income) # ""
        THEN << >>
        ELSE IF calculate_emi_raises(requested_amount, requested_tenure_months)
        THEN << first >>
        ELSE LET Responded(d) ==
                     IF d.decision = "REJECTED" THEN << first >>
                     ELSE << first, << d.approved_amount, d.tenure_months >> >>
             IN  Responded(evaluate_application(user_profile, requested_amount,
                                                requested_tenure_months))

\* One call of evaluate_application as its caller sees it: the decision
\* returned, or the exception of _calculate_emi, which nothing in the engine
\* catches.
evaluation(user_profile, requested_amount, requested_tenure_months) ==
    LET Called(calls) ==
            LET raised == \E i \in DOMAIN calls :
                              calculate_emi_raises(calls[i][1], calls[i][2])
            IN  [ call            |-> "evaluate_application",
                  user_profile    |-> user_profile,
                  requested_amount |-> requested_amount,
                  requested_tenure_months |-> requested_tenure_months,
                  validated       |-> calls # << >>,
                  emi_calls       |-> calls,
                  raised          |-> raised,
                  decision        |-> IF raised THEN NoDecision
                                      ELSE evaluate_application(user_profile,
                                               requested_amount,
                                               requested_tenure_months) ]
    IN  Called(emi_calls(user_profile, requested_amount, requested_tenure_months))

\* One direct call of _calculate_emi: the value returned, or the exception.
emi_calculation(principal, tenure_months) ==
    LET raised == calculate_emi_raises(principal, tenure_months)
    IN  [ call          |-> "calculate_emi",
          principal     |-> principal,
          tenure_months |-> tenure_months,
          raised        |-> raised,
          emi           |-> IF raised THEN NoDecision
                            ELSE calculate_emi(principal, tenure_months) ]

\* Applicants: incomes, existing EMIs (paise) and credit scores on both sides
\* of every threshold.  With Rs 500000 over 36 months (EMI Rs 16607.15) and
\* an income of Rs 50000, existing EMIs of 3392.85 and 8392.85 give a FOIR of
\* exactly 0.400 and 0.500; existing EMIs of Rs 21000 exceed 40% of the
\* income, and those of Rs 60000 the income itself.
EngineIncomes == {0 - 100, 0, 5000000}
EngineExistingEmis == {0, 339285, 344285, 839285, 844285, 1950000, 2100000, 6000000}
EngineScores == {679, 680, 719, 720}
EngineProfiles ==
    { [ monthly_income |-> i, existing_emi |-> e, mock_credit_score |-> c ] :
        i \in EngineIncomes, e \in EngineExistingEmis, c \in EngineScores }

\* Requested amounts (paise) and tenures at, inside and outside the limits.
EngineAmounts == {0, 4999999, 5000000, 10000000, 50000000, 500000000, 500000001}
EngineTenures == {0, 5, 6, 24, 36, 60, 61}

EvaluateRequests ==
    { [ call |-> "evaluate_application", user_profile |-> p,
        requested_amount |-> a, requested_tenure_months |-> t ] :
        p \in EngineProfiles, a \in EngineAmounts, t \in EngineTenures }

\* Direct calls of the EMI calculator, inside and outside its domain.
EmiPrincipals == {0 - 10000000, 0 - 1, 0, 1, 5000000, 10000000}
EmiTenures == {0 - 12, 0 - 1, 0, 1, 6, 12, 60}

EmiRequests ==
    { [ call |-> "calculate_emi", principal |-> p, tenure_months |-> t ] :
        p \in EmiPrincipals, t \in EmiTenures }

\* Sessions the store may hold while the engine is called: none, or one that
\* create_session has just made.
StoredSessions ==
    { [s \in SessionIds |-> None],
      [s \in SessionIds |-> IF s = 1 THEN new_session("u_mid") ELSE None] }


\* An evaluation that also files its decision in the loan collection.
EvaluateAndFile ==
    /\ last.kind = "engine"
    /\ last.queue # << >>
    /\ Head(last.queue).call = "evaluate_application"
    /\ LET Filed(e) ==
               /\ last' = [ last EXCEPT !.queue = Tail(@), !.done = Append(@, e) ]
               /\ loan_applications' = Append(loan_applications, e.decision)
       IN  Filed(evaluation(Head(last.queue).user_profile,
                            Head(last.queue).requested_amount,
                            Head(last.queue).requested_tenure_months))
    /\ UNCHANGED << initialized, sessions, next_session, turns >>

\* The first call of the queue is made and its outcome recorded.  Nothing
\* but the call's own result is written.
Evaluate ==
    /\ last.kind = "engine"
    /\ last.queue # << >>
    /\ Head(last.queue).call = "evaluate_application"
    /\ LET r == Head(last.queue)
       IN  last' = [ last EXCEPT
                       !.queue = Tail(@),
                       !.done  = Append(@, evaluation(r.user_profile,
                                                      r.requested_amount,
                                                      r.requested_tenure_months)) ]
    /\ UNCHANGED << initialized, sessions, next_session, loan_applications, turns >>

CalculateEmi ==
    /\ last.kind = "engine"
    /\ last.queue # << >>
    /\ Head(last.queue).call = "calculate_emi"
    /\ LET r == Head(last.queue)
       IN  last' = [ last EXCEPT
                       !.queue = Tail(@),
                       !.done  = Append(@, emi_calculation(r.principal,
                                                           r.tenure_months)) ]
    /\ UNCHANGED << initialized, sessions, next_session, loan_applications, turns >>

InitEngine ==
    /\ initialized \in BOOLEAN
    /\ sessions \in StoredSessions
    /\ next_session = IF sessions[1] = None THEN 1 ELSE 2
    /\ loan_applications = << >>
    /\ turns = 0
    /\ last \in { [ kind |-> "engine", queue |-> << r >>, done |-> << >> ] :
                    r \in EvaluateRequests \cup EmiRequests }

NextEngine == Evaluate \/ CalculateEmi

SpecEngine == InitEngine /\ [][NextEngine]_vars


\* Repeated evaluation: the initial state draws a series of requests, equal
\* ones included, that differ in the existing EMIs, in the amount (by one
\* paisa too) and in the tenure.
MaxEvaluations == 3

RepeatProfiles ==
    { [ monthly_income |-> 5000000, existing_emi |-> e, mock_credit_score |-> 720 ] :
        e \in {0, 339285} }

RepeatRequests ==
    { [ call |-> "evaluate_application", user_profile |-> p,
        requested_amount |-> a, requested_tenure_months |-> t ] :
        p \in RepeatProfiles, a \in {10000000, 50000000, 50000001}, t \in {24, 36} }

InitRepeat ==
    /\ initialized \in BOOLEAN
    /\ sessions \in StoredSessions
    /\ next_session = IF sessions[1] = None THEN 1 ELSE 2
    /\ loan_applications = << >>
    /\ turns = 0
    /\ last \in { [ kind |-> "engine", queue |-> q, done |-> << >> ] :
                    q \in [1..MaxEvaluations -> RepeatRequests] }

NextRepeat == Evaluate

SpecRepeat == InitRepeat /\ [][NextRepeat]_vars

\* The calls made so far, of each method.
Evaluated ==
    IF last.kind = "engine"
    THEN { last.done[i] : i \in { j \in DOMAIN last.done :
                                    last.done[j].call = "evaluate_application" } }
    ELSE {}

\* The evaluations that returned a decision after validation.
Decided == { e \in Evaluated : e.validated /\ ~e.raised }

(***************************************************************************)
(* Properties of the underwriting engine.  They are stated on the          *)
(* evaluations recorded in `last`.                                         *)
(***************************************************************************)
\* The FOIR the engine computes for a validated request: the EMI of the
\* requested amount plus the existing EMIs, over the income.
computed_foir(e) ==
    calculate_foir(e.user_profile.existing_emi,
                   calculate_emi(e.requested_amount, e.requested_tenure_months),
                   e.user_profile.monthly_income)

\* C11: a request that passes validation with credit_score >= 720 and
\* FOIR <= 0.40 is APPROVED for the full requested amount in risk band A;
\* both thresholds are closed.
ExcellentCreditIsApprovedInFull ==
    \A e \in Decided :
        (e.user_profile.mock_credit_score >= EXCELLENT_CREDIT_SCORE
            /\ computed_foir(e) <= FOIR_THRESHOLD_A)
        => /\ e.decision.decision = "APPROVED"
           /\ e.decision.approved_amount = e.requested_amount
           /\ e.decision.risk_band = "A"

\* Witness of C11: credit score exactly 720 with FOIR exactly 0.400.
ApprovedAtBothThresholds ==
    \E e \in Decided :
        /\ e.user_profile.mock_credit_score = EXCELLENT_CREDIT_SCORE
        /\ computed_foir(e) = FOIR_THRESHOLD_A
        /\ e.decision.decision = "APPROVED"
        /\ e.decision.risk_band = "A"

\* The EMI left for a new loan under the 0.40 ceiling: income * 0.40 less
\* the existing EMIs.
max_emi(e) ==
    MulMilli(e.user_profile.monthly_income, FOIR_THRESHOLD_A)
        - e.user_profile.existing_emi

OutOfLimits(e) ==
    \/ e.requested_amount < MIN_LOAN_AMOUNT * 100
    \/ e.requested_amount > MAX_LOAN_AMOUNT * 100
    \/ e.requested_tenure_months < MIN_TENURE_MONTHS
    \/ e.requested_tenure_months > MAX_TENURE_MONTHS
    \/ e.user_profile.monthly_income <= 0

\* C14: a request with an amount below the minimum or above the maximum, a
\* tenure below 6 or above 60 months, or a non-positive income is answered
\* with a REJECTED decision in risk band C with a non-empty explanation, and
\* no exception is raised.
InvalidRequestIsRejectedNotRaised ==
    \A e \in Evaluated :
        OutOfLimits(e)
        => /\ ~e.raised
           /\ e.decision.decision = "REJECTED"
           /\ e.decision.risk_band = "C"
           /\ e.decision.explanation # ""

\* Witness of C14: a tenure of 0 months, for which the EMI formula would
\* divide by zero, is rejected with the reason given by validation.
ZeroTenureRejected ==
    \E e \in Evaluated :
        /\ e.requested_tenure_months = 0
        /\ e.requested_amount >= MIN_LOAN_AMOUNT * 100
        /\ e.requested_amount <= MAX_LOAN_AMOUNT * 100
        /\ e.user_profile.monthly_income > 0
        /\ ~e.raised
        /\ e.decision.decision = "REJECTED"
        /\ e.decision.explanation = "tenure_below_minimum"

\* C15: every REJECTED decision, from validation, from the branch where the
\* affordable amount is too small, or from the last rung of the ladder,
\* carries approved_amount, emi, total_payable and processing_fee of zero.
RejectionCarriesZeros ==
    \A e \in Evaluated :
        (~e.raised /\ e.decision.decision = "REJECTED")
        => /\ e.decision.approved_amount = 0
           /\ e.decision.emi = 0
           /\ e.decision.total_payable = 0
           /\ e.decision.processing_fee = 0

\* Witness of C15: the rejection of the second rung, where an affordable
\* amount (below the minimum) and its FOIR have been computed.
AffordableAmountTooSmall ==
    \E e \in Decided :
        /\ e.decision.decision = "REJECTED"
        /\ e.decision.explanation = "affordable_below_minimum"
        /\ e.decision.foir > FOIR_THRESHOLD_A
        /\ e.decision.emi = 0

\* The request of an evaluation.
request_of(e) ==
    << e.user_profile, e.requested_amount, e.requested_tenure_months >>

FoirIsMonotone ==
    \A d, e \in Decided :
        (d.user_profile.monthly_income = e.user_profile.monthly_income
            /\ d.requested_tenure_months = e.requested_tenure_months
            /\ d.user_profile.existing_emi <= e.user_profile.existing_emi
            /\ d.requested_amount <= e.requested_amount)
        => d.decision.foir <= e.decision.foir

\* Witness of C17: two evaluations one paisa of principal apart, where the
\* rounding makes the two ratios equal, and a third with more existing EMIs
\* and a strictly higher ratio.
FoirComparedAcrossRounding ==
    \E c, d, e \in Decided :
        /\ d.requested_amount = c.requested_amount + 1
        /\ d.user_profile = c.user_profile
        /\ e.user_profile.existing_emi > d.user_profile.existing_emi
        /\ e.requested_amount = d.requested_amount
        /\ c.requested_tenure_months = d.requested_tenure_months
        /\ d.requested_tenure_months = e.requested_tenure_months
        /\ c.decision.foir = d.decision.foir
        /\ d.decision.foir < e.decision.foir

\* C18: the foir of every decision returned lies in [0, 1], and it is 1.0
\* whenever the applicant's monthly income is not positive.
FoirFieldIsARatio ==
    \A e \in Evaluated :
        ~e.raised
        => /\ e.decision.foir >= 0
           /\ e.decision.foir <= 1000
           /\ (e.user_profile.monthly_income <= 0 => e.decision.foir = 1000)

\* C19: on every path from evaluate_application the EMI calculator is
\* called with a tenure above 0 and a principal of at least 0: for the
\* requested amount after validation, and for the amount of the approval or
\* adjustment response.
EmiCalledWithinDomain ==
    \A e \in Evaluated :
        \A i \in DOMAIN e.emi_calls :
            /\ e.emi_calls[i][1] >= 0
            /\ e.emi_calls[i][2] > 0

\* Witness of C19: an adjusted offer, whose EMI is computed a second time, on
\* the adjusted amount.
EmiRecomputedOnAdjustedAmount ==
    \E e \in Evaluated :
        /\ e.decision.decision = "ADJUST"
        /\ Len(e.emi_calls) = 2
        /\ e.emi_calls[1] = << e.requested_amount, e.requested_tenure_months >>
        /\ e.emi_calls[2] = << e.decision.approved_amount, e.requested_tenure_months >>
        /\ e.emi_calls[2][1] < e.emi_calls[1][1]

\* The direct calls of the EMI calculator made so far.
Calculated ==
    IF last.kind = "engine"
    THEN { last.done[i] : i \in { j \in DOMAIN last.done :
                                    last.done[j].call = "calculate_emi" } }
    ELSE {}

\* C20: called directly with a tenure of 0 or less, or with a negative
\* principal, the EMI calculator fails instead of returning an instalment.
EmiOutsideDomainFails ==
    \A c \in Calculated :
        (c.tenure_months <= 0 \/ c.principal < 0) => c.raised

(***************************************************************************)
(* The extraction of STATE 1 on its own.  The initial state draws a text   *)
(* put together from parts whose meaning is known: a lead (one of them     *)
(* with a digit that is no loan term), an amount or none, the word "lakh"  *)
(* or not, and a tenure or none, in either order.                          *)
(***************************************************************************)
\* "", "I need ", "OK ", "Flat 7: "
TextLeads ==
    { [ text |-> << >>, present |-> FALSE, value |-> 0 ],
      [ text |-> << "I", " ", "n", "e", "e", "d", " " >>, present |-> FALSE, value |-> 0 ],
      [ text |-> << "O", "K", " " >>, present |-> FALSE, value |-> 0 ],
      [ text |-> << "F", "l", "a", "t", " ", "7", ":", " " >>, present |-> TRUE, value |-> 7 ] }

\* none, "5", "₹5,00,000", "300000", "999", "1000", "₹ 50,000"
TextAmounts ==
    { [ text |-> << >>, present |-> FALSE, value |-> 0 ],
      [ text |-> << "5" >>, present |-> TRUE, value |-> 5 ],
      [ text |-> << "RUPEE", "5", ",", "0", "0", ",", "0", "0", "0" >>, present |-> TRUE, value |-> 500000 ],
      [ text |-> << "3", "0", "0", "0", "0", "0" >>, present |-> TRUE, value |-> 300000 ],
      [ text |-> << "9", "9", "9" >>, present |-> TRUE, value |-> 999 ],
      [ text |-> << "1", "0", "0", "0" >>, present |-> TRUE, value |-> 1000 ],
      [ text |-> << "RUPEE", " ", "5", "0", ",", "0", "0", "0" >>, present |-> TRUE, value |-> 50000 ] }

\* none, "24 months", "36 Months", "12month", "6  months"
TextTenures ==
    { [ text |-> << >>, present |-> FALSE, value |-> 0 ],
      [ text |-> << "2", "4", " ", "m", "o", "n", "t", "h", "s" >>, present |-> TRUE, value |-> 24 ],
      [ text |-> << "3", "6", " ", "M", "o", "n", "t", "h", "s" >>, present |-> TRUE, value |-> 36 ],
      [ text |-> << "1", "2", "m", "o", "n", "t", "h" >>, present |-> TRUE, value |-> 12 ],
      [ text |-> << "6", " ", " ", "m", "o", "n", "t", "h", "s" >>, present |-> TRUE, value |-> 6 ] }

\* "", " lakh", " Lakh"
TextUnits == { << >>, << " ", "l", "a", "k", "h" >>, << " ", "L", "a", "k", "h" >> }

TextOrders == {"amount_first", "tenure_first"}

\* The text of the parts, amount before tenure ("... 5 lakh for 24 months")
\* or after it ("... 24 months, 5 lakh").
compose(lead, amount, unit, tenure, order) ==
    IF order = "amount_first"
    THEN lead.text \o amount.text \o unit
             \o (IF amount.present /\ tenure.present THEN << " ", "f", "o", "r", " " >> ELSE << >>)
             \o tenure.text
    ELSE lead.text \o tenure.text
             \o (IF amount.present /\ tenure.present THEN << ",", " " >> ELSE << >>)
             \o amount.text \o unit

\* The number that comes first in the text.
first_number(lead, amount, tenure, order) ==
    LET parts == IF order = "amount_first" THEN << lead, amount, tenure >>
                 ELSE << lead, tenure, amount >>
        at    == { i \in 1..3 : parts[i].present }
    IN  IF at = {} THEN 0
        ELSE parts[CHOOSE i \in at : \A j \in at : i <= j].value

\* The word "lakh" goes with an amount only.
ExtractRequests ==
    { [ call         |-> "extract_loan_terms",
        user_message |-> compose(l, a, IF a.present THEN u ELSE << >>, t, o),
        has_amount   |-> a.present,
        has_tenure   |-> t.present,
        has_number   |-> l.present \/ a.present \/ t.present,
        tenure       |-> t.value,
        has_lakh     |-> a.present /\ u # << >>,
        first        |-> first_number(l, a, t, o) ] :
        l \in TextLeads, a \in TextAmounts, t \in TextTenures, o \in TextOrders,
        u \in TextUnits }

\* STATE 1 reads the message: what it extracts, i.e. whether underwriting
\* is run and on which terms.
Extract ==
    /\ last.kind = "engine"
    /\ last.queue # << >>
    /\ Head(last.queue).call = "extract_loan_terms"
    /\ LET Read(r) ==
               last' = [ last EXCEPT
                           !.queue = Tail(@),
                           !.done  = Append(@, [ r EXCEPT !.call = "extracted" ]
                                       @@ [ terms |-> extract_loan_terms(r.user_message) ]) ]
       IN  Read(Head(last.queue))
    /\ UNCHANGED << initialized, sessions, next_session, loan_applications, turns >>

InitExtract ==
    /\ initialized \in BOOLEAN
    /\ sessions = [s \in SessionIds |-> None]
    /\ next_session = 1
    /\ loan_applications = << >>
    /\ turns = 0
    /\ last \in { [ kind |-> "engine", queue |-> << r >>, done |-> << >> ] :
                    r \in ExtractRequests }

NextExtract == Extract

SpecExtract == InitExtract /\ [][NextExtract]_vars

\* The texts read so far.
Extracted ==
    IF last.kind = "engine"
    THEN { last.done[i] : i \in { j \in DOMAIN last.done :
                                    last.done[j].call = "extracted" } }
    ELSE {}

(***************************************************************************)
(* Properties of the extraction.                                           *)
(***************************************************************************)
\* C21: loan terms are extracted only from a text that contains both an
\* amount and a tenure; a text with only one of them (a number without
\* "month", or a single number that is the tenure) yields no extraction.
ExtractionNeedsBothTerms ==
    \A x \in Extracted :
        x.terms.found => (x.has_amount /\ x.has_tenure)

\* C22: the extracted amount is the first number of the text, commas
\* removed, times 100000 exactly when the word "lakh" occurs and the number
\* is below 1000, and the tenure is the number before "month": "5 lakh for
\* 24 months" gives 500000 and 24, "I need ₹5,00,000 for 36 months" gives
\* 500000 and 36.
AmountIsFirstNumberWithLakh ==
    \A x \in Extracted :
        /\ x.terms.found
           => /\ x.terms.amount = IF x.has_lakh /\ x.first < 1000
                                  THEN x.first * 100000 ELSE x.first
              /\ x.terms.tenure = x.tenure
        /\ x.user_message = MsgScenario5
           => x.terms = [ found |-> TRUE, amount |-> 500000, tenure |-> 24 ]
        /\ x.user_message = MsgScenario4
           => x.terms = [ found |-> TRUE, amount |-> 500000, tenure |-> 36 ]

\* Witness of C22: "5 lakh for 24 months" is read through the multiplier.
LakhMultiplierApplied ==
    \E x \in Extracted :
        /\ x.user_message = MsgScenario5
        /\ x.has_lakh
        /\ x.first = 5
        /\ x.terms.found
        /\ x.terms.amount = 500000

(***************************************************************************)
(* The chat history on its own: entries are appended to the sessions of    *)
(* the store, in any interleaving, and `last` keeps everything that was    *)
(* appended to each session.  The n-th entry of a session has content n.   *)
(***************************************************************************)
\* Appends to one session in one run: past the cap of the history.
MaxAppends == 22

AppendHistory ==
    \E s \in SessionIds :
        /\ last.kind = "history"
        /\ Len(last.appended[s]) < MaxAppends
        /\ LET n    == Len(last.appended[s]) + 1
               role == IF n % 2 = 1 THEN "user" ELSE "assistant"
           IN  /\ sessions' = add_to_chat_history(sessions, s, role, n)
               /\ last' = [ last EXCEPT !.appended[s] =
                                Append(@, [role |-> role, content |-> n]) ]
        /\ UNCHANGED << initialized, next_session, loan_applications, turns >>

InitHistory ==
    /\ initialized \in BOOLEAN
    /\ sessions = [s \in SessionIds |-> new_session("u_mid")]
    /\ next_session = MaxSessions + 1
    /\ loan_applications = << >>
    /\ turns = 0
    /\ last = [ kind |-> "history", appended |-> [s \in SessionIds |-> << >>] ]

NextHistory == AppendHistory

SpecHistory == InitHistory /\ [][NextHistory]_vars

\* The last k entries of a sequence.
LastEntries(h, k) == SubSeq(h, Len(h) - k + 1, Len(h))

\* C23: after any sequence of appends the chat history of a session holds
\* at most 20 entries, and they are the most recent min(n, 20) of the n
\* entries appended, in the order of the appends.
HistoryIsMostRecentEntries ==
    last.kind = "history"
    => \A s \in SessionIds :
           LET all  == last.appended[s]
               kept == IF Len(all) < _max_history THEN Len(all) ELSE _max_history
           IN  /\ Len(get_chat_history(sessions, s)) <= _max_history
               /\ get_chat_history(sessions, s) = LastEntries(all, kept)

\* Witness of C23: 22 entries were appended to a session, and its history
\* runs from the third to the last of them.
OldestEntriesDropped ==
    /\ last.kind = "history"
    /\ \E s \in SessionIds :
           /\ Len(last.appended[s]) = _max_history + 2
           /\ Len(get_chat_history(sessions, s)) = _max_history
           /\ get_chat_history(sessions, s)[1].content = 3
           /\ get_chat_history(sessions, s)[_max_history].content = _max_history + 2

(***************************************************************************)
(* Two sessions of one user that hold the same stored decision under       *)
(* different stage labels, and the same message handled for each of them,  *)
(* one after the other.                                                    *)
(***************************************************************************)
TwinUsers == {"u_young", "u_mid"}

\* What a session of the user may hold as loan_decision: nothing, or the
\* result of underwriting one of the texts.
StoredDecisions(user_id) ==
    {None} \cup
    { [success |-> TRUE] @@
          evaluate_loan_results[ << Users[user_id].monthly_income,
                                    Users[user_id].existing_emi,
                                    Users[user_id].mock_credit_score,
                                    MessageTerms[m].amount, MessageTerms[m].tenure >> ] :
        m \in { n \in Messages : MessageTerms[n].found } }

\* The stage labels chat() leaves on a session that holds the decision: the
\* one set in the underwriting turn (or WELCOME), and those set by later
\* messages.
StageLabels(d) ==
    { IF d = None THEN "WELCOME"
      ELSE IF d.decision = "REJECTED" THEN "REJECTED" ELSE "SANCTION_GENERATED",
      "GATHERING_DETAILS", "UNDERWRITING" }

twin_session(user_id, d, label) ==
    [ new_session(user_id) EXCEPT !.loan_decision = d, !.current_step = label ]

\* What the handling of one message shows: the kind of reply, the decision
\* answered, and the collaborator calls.
outcome(r) ==
    [ reply        |-> r.response.reply.kind,
      decision     |-> r.response.decision,
      evaluations  |-> r.evaluations,
      create_calls |-> r.create_calls,
      store_calls  |-> r.store_calls ]

TwinMessages ==
    \E m \in Messages, env \in RealEnvs :
        /\ last.kind = "twin_sessions"
        /\ LET Second(r1, r2) ==
                   /\ sessions' = r2.sessions
                   /\ loan_applications' = r2.loans
                   /\ last' = [ kind     |-> "twins",
                                message  |-> m,
                                stored   |-> sessions[1].loan_decision,
                                labels   |-> << sessions[1].current_step,
                                                sessions[2].current_step >>,
                                first    |-> outcome(r1),
                                second   |-> outcome(r2) ]
               First(r1) ==
                   Second(r1, process_message_simple(initialized, r1.sessions, r1.loans,
                                                     last.user_id, 2, m, env))
           IN  First(process_message_simple(initialized, sessions, loan_applications,
                                            last.user_id, 1, m, env))
        /\ UNCHANGED << initialized, next_session, turns >>

InitTwins ==
    /\ initialized \in BOOLEAN
    /\ \E u \in TwinUsers :
         \E d \in StoredDecisions(u) :
           \E l1, l2 \in StageLabels(d) :
               /\ l1 # l2
               /\ sessions = [ s \in SessionIds |->
                                 IF s = 1 THEN twin_session(u, d, l1)
                                 ELSE IF s = 2 THEN twin_session(u, d, l2)
                                 ELSE None ]
               /\ last = [ kind |-> "twin_sessions", user_id |-> u ]
    /\ next_session = MaxSessions + 1
    /\ loan_applications = << >>
    /\ turns = 0

NextTwins == TwinMessages

SpecTwins == InitTwins /\ [][NextTwins]_vars

\* C24: which transition fires depends on the message and on the stored
\* decision only, not on the stage label: two sessions with the same stored
\* decision (or none) and different stage labels get the same kind of reply
\* and the same collaborator calls for the same message.
StageLabelDoesNotDecide ==
    last.kind = "twins" => last.first = last.second

\* Witness of C24: an acceptance handled for a session labelled
\* SANCTION_GENERATED and for one labelled GATHERING_DETAILS, both holding an
\* APPROVED decision: application creation is invoked for both.
AcceptanceUnderTwoLabels ==
    /\ last.kind = "twins"
    /\ last.labels = << "SANCTION_GENERATED", "GATHERING_DETAILS" >>
    /\ last.stored # None
    /\ last.stored.decision = "APPROVED"
    /\ last.message = "yes"
    /\ last.first.create_calls = 1
    /\ last.second.create_calls = 1

(***************************************************************************)
(* Further properties of the conversation state machine (specification     *)
(* Spec), stated on `last`.                                                *)
(***************************************************************************)
\* C25: a message with neither extractable loan terms nor a qualifying
\* acceptance is answered with the static welcome message, and the stage of
\* the session after the turn is WELCOME.
NoPatternAnswersWelcomeInStageWelcome ==
    (/\ TurnDone
     /\ ~MessageTerms[last.message].found
     /\ ~(MessageAccepts[last.message] /\ Sanctionable(last.before_decision)))
    => /\ last.reply = WelcomeReply
       /\ last.step = "WELCOME"

\* The store with every session but one removed.
alone(S, session_id) ==
    [ s \in DOMAIN S |-> IF s = session_id THEN S[s] ELSE None ]

\* C26: in any interleaving of the requests of different sessions, handling
\* a message for one session neither reads nor changes the stored decision,
\* stage or chat history of another session: the state machine answers and
\* writes as it would with the other sessions absent, and a request leaves
\* every other session as it was.
SessionsAreIsolated ==
    /\ [](\A sid \in SessionIds, u \in UserIds, m \in ChatMessages :
              sessions[sid] # None
              => LET Same(r, q) ==
                         /\ outcome(r) = outcome(q)
                         /\ r.sessions[sid] = q.sessions[sid]
                         /\ \A s \in SessionIds \ {sid} : r.sessions[s] = sessions[s]
                 IN  Same(process_message_simple(initialized, sessions,
                                                 loan_applications, u, sid, m, NoFault),
                          process_message_simple(initialized, alone(sessions, sid),
                                                 loan_applications, u, sid, m, NoFault)))
    /\ [][turns' # turns
            => \A s \in SessionIds \ {last'.session_id} : sessions'[s] = sessions[s]]_vars

\* Witness of C26: a request was handled for session 2 while session 1 held
\* a decision; the two sessions hold different decisions.
SecondSessionHandledBesideFirst ==
    /\ TurnDone
    /\ last.session_id = 2
    /\ last.evaluations > 0
    /\ sessions[1] # None
    /\ sessions[1].loan_decision # None
    /\ sessions[2].loan_decision # None
    /\ sessions[2].loan_decision.decision # sessions[1].loan_decision.decision

(***************************************************************************)
(* Further properties of the underwriting engine (specification            *)
(* SpecEngine).                                                            *)
(***************************************************************************)
\* C27: every ADJUST decision offers an amount that is at least the minimum
\* loan amount and strictly less than the requested amount.
AdjustedOfferBetweenFloorAndAsk ==
    \A e \in Evaluated :
        (~e.raised /\ e.decision.decision = "ADJUST")
        => /\ e.decision.approved_amount >= MIN_LOAN_AMOUNT * 100
           /\ e.decision.approved_amount < e.requested_amount

\* Witness of C27: an adjusted offer for a request of twice the minimum
\* amount, between the minimum and the request.
AdjustedOfferUnderTwiceTheFloor ==
    \E e \in Evaluated :
        /\ ~e.raised
        /\ e.decision.decision = "ADJUST"
        /\ e.requested_amount = 2 * MIN_LOAN_AMOUNT * 100
        /\ e.decision.approved_amount >= MIN_LOAN_AMOUNT * 100
        /\ e.decision.approved_amount < e.requested_amount

\* C29: the foir of an ADJUST decision is the FOIR of the instalment of the
\* full requested amount, not of the instalment of the amount offered;
\* hence it is above 0.40 and at most 0.50.
AdjustReportsFoirOfTheRequest ==
    \A e \in Evaluated :
        (~e.raised /\ e.decision.decision = "ADJUST")
        => /\ e.decision.foir = computed_foir(e)
           /\ e.decision.foir > FOIR_THRESHOLD_A
           /\ e.decision.foir <= FOIR_THRESHOLD_B

\* Witness of C29: an adjusted offer whose own instalment gives a FOIR of
\* 0.40 while the decision reports the higher FOIR of the request.
AdjustFoirDiffersFromFoirOfOffer ==
    \E e \in Evaluated :
        /\ ~e.raised
        /\ e.decision.decision = "ADJUST"
        /\ e.decision.foir = computed_foir(e)
        /\ calculate_foir(e.user_profile.existing_emi, e.decision.emi,
                          e.user_profile.monthly_income) = FOIR_THRESHOLD_A
        /\ e.decision.foir > FOIR_THRESHOLD_A + 50

(***************************************************************************)
(* Further properties of the conversation (specification Spec).            *)
(***************************************************************************)
\* C28: a message from which terms are extracted and for which underwriting
\* returns a decision is answered with that decision and application
\* creation is not invoked in that turn, also when the message contains an
\* affirmative word and the session's earlier or new decision is APPROVED or
\* ADJUST: the underwriting branch comes before the acceptance branch.
UnderwritingComesBeforeAcceptance ==
    ( /\ TurnDone
      /\ MessageTerms[last.message].found
      /\ last.evaluations = 1
      /\ last.events \cap {"profile_lookup_failed", "engine_call_raised"} = {} )
        => /\ last.create_calls = 0
           /\ last.store_calls = 0
           /\ last.records_after = last.records_before
           /\ last.decision \in {"APPROVED", "ADJUST", "REJECTED"}
           /\ last.loan_id = None

\* Witness of C28: a message with an affirmative word and terms, in a
\* session that held an APPROVED or ADJUST decision, was answered with a new
\* APPROVED or ADJUST decision and created nothing.
AcceptingTermsOnlyUnderwritten ==
    /\ TurnDone
    /\ MessageAccepts[last.message]
    /\ MessageTerms[last.message].found
    /\ Sanctionable(last.before_decision)
    /\ last.decision \in {"APPROVED", "ADJUST"}
    /\ Sanctionable(last.after_decision)
    /\ last.create_calls = 0

(***************************************************************************)
(* The conversation after a decision.  The store holds one session in      *)
(* which the first message of a user has been underwritten and answered;   *)
(* further requests follow as in Spec.                                     *)
(***************************************************************************)
DecidedUsers == {"u_young", "u_mid"}

DecidedMessages == { m \in ChatMessages : MessageTerms[m].found }

\* The store after POST /chat has handled `message` of `user_id` as the
\* first request: the session is created, the profile cached, the message
\* and the reply recorded, the decision stored and the step set.
sessions_after_first_chat(init, user_id, message) ==
    LET session_id == 1
        fetched == get_user_profile(init, user_id, FALSE)
        S0 == [ s \in SessionIds |-> IF s = session_id THEN new_session(user_id) ELSE None ]
        S2 == add_to_chat_history(
                  IF fetched # None THEN set_user_profile(S0, session_id, fetched) ELSE S0,
                  session_id, "user", message)
        Stepped(r, S3) ==
            set_step(S3, session_id,
                     new_step(get_step(S2, session_id), r.response.decision, message,
                              Len(get_chat_history(S3, session_id))))
        Answered(r) ==
            Stepped(r, add_to_chat_history(r.sessions, session_id, "assistant",
                                           r.response.reply))
    IN  Answered(master_agent_chat(init, S2, << >>, session_id, user_id, message, NoFault))

InitDecided ==
    /\ initialized \in BOOLEAN
    /\ \E u \in DecidedUsers, m \in DecidedMessages :
           sessions = sessions_after_first_chat(initialized, u, m)
    /\ next_session = 2
    /\ loan_applications = << >>
    /\ turns = 0
    /\ last = NoTurn

NextDecided == Chat \/ ClearSession

SpecDecided == InitDecided /\ [][NextDecided]_vars

\* C30: once an application has been created for the decision a session
\* holds, a further affirmative message in that session creates no other
\* application for that decision: of two successive requests of a session
\* that are not underwritten anew, at most one adds a record.
OneApplicationPerDecision ==
    [][ ( /\ turns' = turns + 1
          /\ last.kind = "reply"
          /\ last'.kind = "reply"
          /\ last'.session_id = last.session_id
          /\ last.evaluations = 0
          /\ last'.evaluations = 0
          /\ last'.before_decision = last.after_decision
          /\ last.records_after > last.records_before )
        => last'.records_after = last'.records_before ]_vars

====
